---- MODULE Spec2Model ----
(***************************************************************************)
(* SurplusLink backend: the claim / donation lifecycle.                    *)
(*                                                                         *)
(* The two MongoDB collections (donations, claims) are the shared state.   *)
(* Every Express handler is an async function: each `await` of a database  *)
(* call is one atomic step, and other handlers (and the hourly cleanup     *)
(* job) may run between two awaits of the same handler.  A handler keeps   *)
(* the documents it loaded in its own locals (the request record).         *)
(*                                                                         *)
(* Time is counted in ticks; ClaimWindow ticks stand for the 15 minutes a  *)
(* claim stays open.  Every request passes the rate limiter of /api/; its  *)
(* window is one tick and RateMax requests stand for its max of 100.       *)
(***************************************************************************)
EXTENDS Integers, Sequences, FiniteSets, TLC

\* ---------------------------------------------------------------- bounds
MaxTime == 2
MaxInFlight == 2
\* wrong codes counted per claim
MaxWrong == 2

\* ------------------------------------------------------- program constants
\* expiresAt default: Date.now() + 15 * 60 * 1000, here in ticks
ClaimWindow == 1
\* the limiter's max: 100 requests per caller and window, here RateMax
RateMax == 3

Donors == {"donor"}
Claimants == {"ngoA", "ngoB"}
Users == Donors \cup Claimants
NoUser == "null"
\* Math.floor(1000 + Math.random() * 9000): the least and the greatest code
Codes == {1000, 9999}
\* the codes a confirm request may carry: those, and one of five characters
RequestCodes == Codes \cup {12345}
\* the interleaved specification: every claim is issued, and every confirm
\* request carries, the least code
RaceCodes == {1000}
NoOtp == 0
NoTime == -1

\* the _ids requests may name: donation 1, and an _id no document has
DonationIds == {1, 2}
\* the claim _ids requests may name; one claim per (donation, claimant)
RequestClaimIds == {1, 2, 3}
\* those of the interleaved specification: two claimants make at most two claims
RaceClaimIds == {1, 2}
Slots == 1..MaxInFlight

DonationStatuses == {"available", "claimed", "collected", "expired", "cancelled"}
ClaimStatuses == {"pending", "confirmed", "collected", "expired", "cancelled"}

VARIABLES
  now,        \* the wall clock (new Date())
  donations,  \* the donations collection: DonationIds -> document
  nextDon,    \* the next fresh donation _id
  claims,     \* the claims collection, in insertion order; _id = index
  reqs,       \* the HTTP requests in flight: Slots -> handler locals
  sweep,      \* the cleanup job: its position and the claims it loaded
  resp,       \* the response being sent (NoResp once it has left)
  wrong,      \* history: per claim _id, the 'Invalid OTP' answers given so far
  hits,       \* the rate limiter's store: per caller, the requests of this window
              \* (both kept by the specification that runs behind the limiter)
  users,      \* the users collection: per donor, the document's score
  store       \* the client stores (AppProvider): per signed-in user, its state
              \* and the messages on their way to it

vars == <<now, donations, nextDon, claims, reqs, sweep, resp, wrong, hits, users, store>>

\* ---------------------------------------------------------- type: Number
\* A Number holding an integer below 2^60 is written as three digits of 20
\* bits, the most significant first; a double keeps 53 significant bits of it.
Radix == 2^20
Significand == 53

\* the integers below Radix
Num(n) == <<0, 0, n>>

\* the integer n * k for a rate k, every digit exact
Times(n, k) ==
  LET t0 == n[3] * k
      t1 == n[2] * k + t0 \div Radix
      t2 == n[1] * k + t1 \div Radix
  IN  <<t2, t1 % Radix, t0 % Radix>>

\* the bits an integer has beyond the significand, top being its first digit
RECURSIVE Excess(_)
Excess(top) ==
  IF top < 2^(Significand - 40) THEN 0 ELSE 1 + Excess(top \div 2)

\* the double nearest to the integer n (ties to the even significand): the
\* result of an arithmetic operation on Numbers
Double(n) ==
  LET unit == 2^Excess(n[1])
      low  == n[3] % unit
      kept == n[3] - low
      up   == 2 * low > unit \/ (2 * low = unit /\ (kept \div unit) % 2 = 1)
      d0   == IF up THEN kept + unit ELSE kept
      d1   == n[2] + d0 \div Radix
      d2   == n[1] + d1 \div Radix
  IN  <<d2, d1 % Radix, d0 % Radix>>

\* ------------------------------------------------------------- documents
\* donationSchema.category: enum
Categories == {"food", "medicine", "other"}

NoDonation ==
  [exists |-> FALSE, donor |-> NoUser, status |-> "null",
   claimedBy |-> NoUser, claimedAt |-> NoTime, otp |-> NoOtp,
   expiryDate |-> NoTime,
   category |-> "null", quantity |-> Num(0), estimatedValue |-> Num(0)]

\* a request body with no field beyond those the route validates
NoExtra == << >>

\* new Donation({...req.body, donor}): every schema path the body carries
\* (extra) is set from it, the others get the schema defaults
NewDonation(u, expiry, category, quantity, extra) ==
  extra @@
  [exists |-> TRUE, donor |-> u, status |-> "available",
   claimedBy |-> NoUser, claimedAt |-> NoTime, otp |-> NoOtp,
   expiryDate |-> expiry,
   category |-> category, quantity |-> quantity, estimatedValue |-> Num(0)]

\* donationSchema.pre('save'), baseValues
baseValues == [food |-> 50, medicine |-> 100, other |-> 25]

\* baseValues[this.category] || 25
BaseValue(category) ==
  IF category \in DOMAIN baseValues THEN baseValues[category] ELSE 25

\* donationSchema.pre('save'): a new document, or one whose quantity or
\* category was modified, gets its estimatedValue
DonationPreSave(doc, isNew) ==
  IF isNew
  THEN [doc EXCEPT !.estimatedValue =
                     Double(Times(doc.quantity, BaseValue(doc.category)))]
  ELSE doc

\* userSchema.donationIntegrityScore, default 5.0: a score is kept in tenths
\* (every score the server stores is the default or Math.round(x * 10) / 10)
DefaultScore == 50

\* new User(...): the schema default
\* rated (history): the score the document started with and the ratings of
\* the collections answered with success since, in the order of the answers
NewUserOf(score) ==
  [donationIntegrityScore |-> score, rated |-> [from |-> score, by |-> << >>]]

NewUser == NewUserOf(DefaultScore)

\* newScore = ((donor.donationIntegrityScore * 10) + feedback.rating) / 11;
\* Math.round(newScore * 10) / 10, in tenths: Math.round(x) is
\* floor(x + 1/2), and x = (score + rating) * 10 / 11
NewScore(score, rating) == ((score + rating) * 20 + 11) \div 22

\* no feedback, or a feedback without a rating
NoRating == 0

\* body('feedback.rating').optional().isInt({min: 1, max: 5})
IsRating(rating) == rating = NoRating \/ (rating >= 1 /\ rating <= 5)

\* donationSchema.methods.isExpired
DonationIsExpired(don, t) == t > don.expiryDate

\* a deadline check that is one tick late
ClaimIsExpiredLate(status, expiresAt, t) == t > expiresAt + 1 /\ status = "pending"

\* claimSchema.methods.isExpired
ClaimIsExpired(status, expiresAt, t) == t > expiresAt /\ status = "pending"

\* body('otp').isLength({min: 4, max: 4}), on a code of digits
IsLength4(code) == code >= 1000 /\ code <= 9999

\* a comparison that accepts every code
OtpMatchesAny(cl, code) == TRUE

\* the OTP check of confirm: claim.otp !== otp is 'Invalid OTP'
OtpMatches(cl, code) == cl.otp = code

\* claimSchema.pre('save'): a pending claim past its deadline is stored expired
PreSave(status, expiresAt, t) ==
  IF ClaimIsExpired(status, expiresAt, t) /\ status = "pending"
  THEN "expired" ELSE status

\* Donation.findByIdAndUpdate(id, patch): unconditional; no document, no write
SetDonation(d, patch) ==
  IF d \in DonationIds /\ donations[d].exists
  THEN [donations EXCEPT ![d] = patch @@ @]
  ELSE donations

\* (variant: the release that leaves the donation claimed)
ResetPatchHeld ==
  [status |-> "claimed", claimedBy |-> NoUser, claimedAt |-> NoTime,
   otp |-> NoOtp]

\* the patch cancel and both expire paths apply to the donation
ResetPatch ==
  [status |-> "available", claimedBy |-> NoUser, claimedAt |-> NoTime,
   otp |-> NoOtp]

\* claim.save() of a loaded document: $set of the modified paths only
SaveClaimStatus(c, loaded, status) ==
  IF status = loaded THEN claims
  ELSE [claims EXCEPT ![c].status = status]

ClaimIds == 1..Len(claims)

\* (variant: only a pending claim of the pair counts)
HasPendingClaim(d, u) ==
  \E c \in ClaimIds :
    claims[c].donation = d /\ claims[c].claimant = u /\ claims[c].status = "pending"

\* Claim.findOne({donation, claimant})
HasClaim(d, u) ==
  \E c \in ClaimIds : claims[c].donation = d /\ claims[c].claimant = u

\* ------------------------------------------------------ requests, answers
\* a handler's locals; rating: the feedback.rating of the request; score: the
\* donationIntegrityScore of the donor document it loaded; dotp: the otp of the donation document it loaded (kept
\* where the specification looks at event payloads); again (history): the
\* claim was stored expired already when the handler wrote it expired
Idle ==
  [op |-> "idle", pc |-> "idle", caller |-> NoUser, don |-> 0, cid |-> 0,
   code |-> NoOtp, st |-> "none", loaded |-> FALSE, dotp |-> NoOtp,
   again |-> FALSE, rating |-> NoRating, score |-> 0]

NoResp ==
  [op |-> "none", caller |-> NoUser, don |-> 0, cid |-> 0, code |-> NoOtp,
   kind |-> "none", events |-> <<>>]

\* io.emit(...): the channel of every connected socket
All == "all"

\* io.to(`user_${id}`).emit(name, payload) or io.emit(name, payload): the
\* payload's fields and the OTPs that can be read in it
Event(name, to, fields, otps) ==
  [name |-> name, to |-> to, fields |-> fields, codes |-> otps \ {NoOtp}]

\* an answer: the request it answers (its code: the OTP it carried, or the OTP
\* a 201 returns) and the kind of the result
Answer(op, u, d, c, code, kind) ==
  [op |-> op, caller |-> u, don |-> d, cid |-> c, code |-> code, kind |-> kind,
   events |-> <<>>]

\* (variant: the answer is also published to every socket)
RespondLoud(s, kind) ==
  /\ resp' = [Answer(reqs[s].op, reqs[s].caller, reqs[s].don, reqs[s].cid,
                      reqs[s].code, kind)
                EXCEPT !.events = <<Event("donation_status_updated", All, {"donation"}, {})>>]
  /\ reqs' = [reqs EXCEPT ![s] = Idle]

\* res.status(...).json(...): the handler ends
Respond(s, kind) ==
  /\ resp' = Answer(reqs[s].op, reqs[s].caller, reqs[s].don, reqs[s].cid,
                     reqs[s].code, kind)
  /\ reqs' = [reqs EXCEPT ![s] = Idle]

\* the events published, then res.json(...): the handler ends
RespondWith(s, kind, events) ==
  /\ resp' = [Answer(reqs[s].op, reqs[s].caller, reqs[s].don, reqs[s].cid,
                      reqs[s].code, kind) EXCEPT !.events = events]
  /\ reqs' = [reqs EXCEPT ![s] = Idle]

\* the handler suspends at its next await
Goto(s, r) ==
  /\ reqs' = [reqs EXCEPT ![s] = r]
  /\ resp' = NoResp

\* again (history): the claim was stored expired already when the job wrote it
\* modified, found: the two counts of the job's log line; before (history): the
\* collections as the job found them when it started with nothing else running
SweepIdle ==
  [pc |-> "idle", queue |-> <<>>, again |-> FALSE, modified |-> 0, found |-> 0,
   before |-> <<>>]

\* ------------------------------------------------- the client store
\* the users signed in to an AppProvider, their sockets connected
Clients == {"donor", "ngoA"}

\* a payload's donation: the document as an object (toObject() or toJSON(),
\* with the id virtual) ...
Doc(d, status) ==
  [shape |-> "doc", id |-> d, status |-> status, donor |-> donations[d].donor]

\* ... or the ObjectId of a path that was not populated
Ref(d) == [shape |-> "id", id |-> d]

\* a payload without the part
NoPayload == [shape |-> "none"]

\* a TypeError thrown by reading a property of undefined
Thrown == [thrown |-> TRUE]

\* transformBackendDonation: an ObjectId has no location, and
\* backendDonation.location.coordinates throws
transformBackendDonation(backendDonation) ==
  IF backendDonation.shape = "doc"
  THEN [id |-> backendDonation.id, status |-> backendDonation.status,
        donor |-> backendDonation.donor]
  ELSE Thrown

\* transformBackendClaim: item: transformBackendDonation(backendClaim.donation)
transformBackendClaim(backendClaim) ==
  IF transformBackendDonation(backendClaim.donation) = Thrown
  THEN Thrown
  ELSE [id |-> backendClaim.id, status |-> backendClaim.status,
        item |-> transformBackendDonation(backendClaim.donation)]

\* no call of addItem or claimItem is waiting for its answer
NoCall == [op |-> "none", itemId |-> 0, item |-> NoPayload]

\* useState([]) of items and claims; socket: the events sent to the user's
\* socket and not handled yet, in the order sent; http: the answers on their
\* way to the calls that await them; call: the addItem or claimItem that
\* awaits (its itemId and the item it found); loads: the list requests made
NewStore ==
  [items |-> << >>, claims |-> << >>, socket |-> << >>, http |-> {},
   call |-> NoCall, loads |-> 0]

\* console.log(`Cleanup completed: ${modifiedCount} donations expired,
\* ${expiredClaimsCount} claims expired`): the job's report
Report(modified, found) ==
  [expiredDonations |-> modified, expiredClaims |-> found]
    @@ Answer("cleanup", NoUser, 0, 0, NoOtp, "Logged")

Init ==
  /\ now = 0
  /\ donations = [d \in DonationIds |-> NoDonation]
  /\ nextDon = 1
  /\ claims = <<>>
  /\ reqs = [s \in Slots |-> Idle]
  /\ sweep = SweepIdle
  /\ resp = NoResp
  /\ wrong = [c \in RequestClaimIds |-> 0]
  /\ hits = [u \in Users |-> 0]
  /\ users = [u \in Donors |-> NewUser]
  /\ store = [u \in Clients |-> NewStore]

\* ------------------------------------------------------------ the clock
\* one tick is the limiter's window too (windowMs: 15 * 60 * 1000): the store resets
Tick ==
  /\ now < MaxTime
  /\ now' = now + 1
  /\ hits' = [u \in Users |-> 0]
  /\ resp' = NoResp
  /\ UNCHANGED <<donations, nextDon, claims, reqs, sweep, wrong, users, store>>

\* ------------------------------------------------------------ authorize
\* userSchema.role: the donors are of role donor, the claimants of role ngo
Role(u) == IF u \in Donors THEN "donor" ELSE "ngo"

\* a role list that lets every role in
ClaimRolesAll == {"donor", "ngo", "volunteer"}

\* authorize('ngo', 'volunteer') of POST /api/claims
ClaimRoles == {"ngo", "volunteer"}

\* authorize(...roles): a caller of another role is answered 403, no handler runs
Authorize(u, roles, a, handler) ==
  IF Role(u) \notin roles
  THEN /\ resp' = [a EXCEPT !.kind = "Forbidden"]
       /\ UNCHANGED <<now, donations, nextDon, claims, reqs, sweep, wrong, users, store>>
  ELSE handler

\* ------------------------------------------------- app.use('/api/', limiter)
\* every request of a caller counts; past max the answer is 429 and no handler
\* runs.  limited = FALSE: the callers stay below the limit, nothing is counted.
Limiter(u, limited, a, handler) ==
  IF limited /\ hits[u] >= RateMax
  THEN /\ resp' = [a EXCEPT !.kind = "TooManyRequests"]
       /\ UNCHANGED <<now, donations, nextDon, claims, reqs, sweep, wrong, hits, users, store>>
  ELSE /\ handler
       /\ hits' = IF limited THEN [hits EXCEPT ![u] = @ + 1] ELSE hits

\* ------------------------------------------------- POST /api/donations
\* body('quantity').isInt({min: 1})
IsInt1(quantity) == quantity # Num(0)

\* a quantity that fails validation is answered 400, and so is
\* expiryDate <= now; the document is saved with the defaults and the
\* value its pre('save') hook computes
CreateDonation(u, expiry, limit, category, quantity, extra) ==
  /\ nextDon \in DonationIds /\ nextDon <= limit
  /\ IF ~IsInt1(quantity) \/ expiry <= now
     THEN /\ resp' = Answer("createDonation", u, 0, 0, NoOtp, "ValidationError")
          /\ UNCHANGED <<donations, nextDon>>
     ELSE /\ donations' = [donations EXCEPT ![nextDon] =
                 DonationPreSave(NewDonation(u, expiry, category, quantity, extra), TRUE)]
          /\ nextDon' = nextDon + 1
          /\ resp' = [Answer("createDonation", u, nextDon, 0, NoOtp, "Created")
                        EXCEPT !.events = <<Event("new_donation", All, {"donation"}, {})>>]
  /\ UNCHANGED <<now, claims, reqs, sweep, wrong, users, store>>

\* ---------------------------------------------------- POST /api/claims
\* Donation.findById and the checks on the loaded document
ClaimFind(s, u, d, payload) ==
  /\ LET don == donations[d]
         r == [Idle EXCEPT !.op = "createClaim", !.caller = u, !.don = d,
                           !.dotp = IF payload THEN don.otp ELSE NoOtp]
     IN  /\ reqs[s] = Idle
         /\ IF ~don.exists
            THEN /\ resp' = Answer("createClaim", u, d, 0, NoOtp, "NotFound")
                 /\ UNCHANGED reqs
            ELSE IF don.status # "available"
            THEN /\ resp' = Answer("createClaim", u, d, 0, NoOtp, "Conflict")
                 /\ UNCHANGED reqs
            ELSE IF DonationIsExpired(don, now)
            THEN Goto(s, [r EXCEPT !.pc = "expireWrite"])
            ELSE Goto(s, [r EXCEPT !.pc = "findClaim"])
  /\ UNCHANGED <<now, donations, nextDon, claims, sweep, wrong, users, store>>

\* Donation.findByIdAndUpdate(donationId, {status: 'expired'})
ClaimExpireWrite(s) ==
  /\ reqs[s].op = "createClaim" /\ reqs[s].pc = "expireWrite"
  /\ donations' = SetDonation(reqs[s].don, [status |-> "expired"])
  /\ Respond(s, "Conflict")
  /\ UNCHANGED <<now, nextDon, claims, sweep, wrong, hits, users, store>>

\* Claim.findOne({donation, claimant})
ClaimFindExisting(s) ==
  /\ reqs[s].op = "createClaim" /\ reqs[s].pc = "findClaim"
  /\ IF HasClaim(reqs[s].don, reqs[s].caller)
     THEN Respond(s, "Conflict")
     ELSE Goto(s, [reqs[s] EXCEPT !.pc = "save"])
  /\ UNCHANGED <<now, donations, nextDon, claims, sweep, wrong, hits, users, store>>

\* (variant: a claim window twice as long)
NewClaimLong(d, u, otp, t) ==
  [donation |-> d, claimant |-> u,
   status |-> PreSave("pending", t + 2 * ClaimWindow, t), otp |-> otp,
   claimedAt |-> t, expiresAt |-> t + 2 * ClaimWindow, confirmedAt |-> NoTime]

\* new Claim({donation, claimant, otp}) with the schema defaults
NewClaim(d, u, otp, t) ==
  [donation |-> d, claimant |-> u,
   status |-> PreSave("pending", t + ClaimWindow, t), otp |-> otp,
   claimedAt |-> t, expiresAt |-> t + ClaimWindow, confirmedAt |-> NoTime]

\* the OTP, new Claim({...}) and claim.save(): the insert, under the unique
\* index (donation, claimant); a duplicate key is thrown and answered 500
ClaimSave(s, otp) ==
  /\ reqs[s].op = "createClaim" /\ reqs[s].pc = "save"
  /\ IF HasClaim(reqs[s].don, reqs[s].caller)
     THEN /\ Respond(s, "ServerError")
          /\ UNCHANGED claims
     ELSE /\ claims' = Append(claims, NewClaim(reqs[s].don, reqs[s].caller, otp, now))
          /\ Goto(s, [reqs[s] EXCEPT !.pc = "updateDonation", !.code = otp,
                                     !.cid = Len(claims) + 1])
  /\ UNCHANGED <<now, donations, nextDon, sweep, wrong, hits, users, store>>

\* Donation.findByIdAndUpdate(donationId, {status: 'claimed', ...}); 201
ClaimUpdateDonation(s) ==
  /\ reqs[s].op = "createClaim" /\ reqs[s].pc = "updateDonation"
  /\ donations' = SetDonation(reqs[s].don,
        [status |-> "claimed", claimedBy |-> reqs[s].caller,
         claimedAt |-> now, otp |-> reqs[s].code])
  /\ RespondWith(s, "Created",
       << Event("donation_claimed", donations[reqs[s].don].donor,
                {"donation", "claim"}, {reqs[s].dotp, reqs[s].code}),
          Event("claim_created", reqs[s].caller, {"claim", "otp"}, {reqs[s].code}),
          Event("donation_status_updated", All, {"donation"}, {reqs[s].dotp}) >>)
  /\ UNCHANGED <<now, nextDon, claims, sweep, wrong, hits, users, store>>

\* ------------------------------------------- POST /api/claims/:id/confirm
\* the validation, Claim.findById(...).populate('donation') and the checks on
\* the loaded claim
ConfirmFind(s, u, c, code, count) ==
  /\ reqs[s] = Idle
  /\ LET r == [Idle EXCEPT !.op = "confirm", !.caller = u, !.cid = c, !.code = code] IN
     IF ~IsLength4(code)
     THEN /\ resp' = Answer("confirm", u, 0, c, code, "ValidationError")
          /\ UNCHANGED reqs
     ELSE IF c \notin ClaimIds
     THEN /\ resp' = Answer("confirm", u, 0, c, code, "NotFound")
          /\ UNCHANGED reqs
     ELSE LET cl == claims[c]
              don == donations[cl.donation]
              a == Answer("confirm", u, cl.donation, c, code, "none")
          IN  IF ~don.exists
              THEN \* claim.donation is null: TypeError, caught, 500
                   /\ resp' = [a EXCEPT !.kind = "ServerError"]
                   /\ UNCHANGED reqs
              ELSE IF don.donor # u
              THEN /\ resp' = [a EXCEPT !.kind = "Forbidden"]
                   /\ UNCHANGED reqs
              ELSE IF cl.status # "pending"
              THEN /\ resp' = [a EXCEPT !.kind = "Conflict"]
                   /\ UNCHANGED reqs
              ELSE IF ClaimIsExpired(cl.status, cl.expiresAt, now)
              THEN Goto(s, [r EXCEPT !.pc = "expireSave", !.don = cl.donation,
                                     !.st = cl.status])
              ELSE IF ~OtpMatches(cl, code)
              THEN /\ resp' = [a EXCEPT !.kind = "InvalidCode"]
                   /\ UNCHANGED reqs
              ELSE Goto(s, [r EXCEPT !.pc = "confirmSave", !.don = cl.donation,
                                     !.st = cl.status])
  /\ IF count /\ resp'.kind = "InvalidCode"
     THEN wrong[c] < MaxWrong /\ wrong' = [wrong EXCEPT ![c] = @ + 1]
     ELSE wrong' = wrong
  /\ UNCHANGED <<now, donations, nextDon, claims, sweep, users, store>>

\* claim.status = 'expired'; await claim.save()
ConfirmExpireSave(s) ==
  /\ reqs[s].op = "confirm" /\ reqs[s].pc = "expireSave"
  /\ claims' = SaveClaimStatus(reqs[s].cid, reqs[s].st, "expired")
  /\ Goto(s, [reqs[s] EXCEPT !.pc = "expireDonation",
                             !.again = (claims[reqs[s].cid].status = "expired")])
  /\ UNCHANGED <<now, donations, nextDon, sweep, wrong, hits, users, store>>

\* Donation.findByIdAndUpdate(claim.donation._id, {status: 'available', ...}); 400
ConfirmExpireDonation(s) ==
  /\ reqs[s].op = "confirm" /\ reqs[s].pc = "expireDonation"
  /\ donations' = SetDonation(reqs[s].don, ResetPatch)
  /\ Respond(s, "Expired")
  /\ UNCHANGED <<now, nextDon, claims, sweep, wrong, hits, users, store>>

\* claim.status = 'confirmed'; claim.confirmedAt = new Date(); await claim.save()
ConfirmSave(s) ==
  /\ reqs[s].op = "confirm" /\ reqs[s].pc = "confirmSave"
  /\ claims' = [SaveClaimStatus(reqs[s].cid, reqs[s].st, "confirmed")
                  EXCEPT ![reqs[s].cid].confirmedAt = now]
  /\ RespondWith(s, "OK",
       << Event("pickup_confirmed", claims[reqs[s].cid].claimant, {"claim"},
                {claims[reqs[s].cid].otp}),
          Event("pickup_confirmed", reqs[s].caller, {"claim"},
                {claims[reqs[s].cid].otp}) >>)
  /\ UNCHANGED <<now, donations, nextDon, sweep, wrong, hits, users, store>>

\* ------------------------------------------- POST /api/claims/:id/collect
\* Claim.findById(...).populate('donation') and the checks on the loaded claim
CollectFind(s, u, c, payload, rating) ==
  /\ reqs[s] = Idle
  /\ LET r == [Idle EXCEPT !.op = "collect", !.caller = u, !.cid = c,
                           !.rating = rating] IN
     IF ~IsRating(rating)
     THEN /\ resp' = Answer("collect", u, 0, c, NoOtp, "ValidationError")
          /\ UNCHANGED reqs
     ELSE IF c \notin ClaimIds
     THEN /\ resp' = Answer("collect", u, 0, c, NoOtp, "NotFound")
          /\ UNCHANGED reqs
     ELSE LET cl == claims[c]
              a == Answer("collect", u, cl.donation, c, NoOtp, "none")
          IN  IF cl.claimant # u
              THEN /\ resp' = [a EXCEPT !.kind = "Forbidden"]
                   /\ UNCHANGED reqs
              ELSE IF cl.status # "confirmed"
              THEN /\ resp' = [a EXCEPT !.kind = "Conflict"]
                   /\ UNCHANGED reqs
              ELSE Goto(s, [r EXCEPT !.pc = "collectSave", !.don = cl.donation,
                                     !.st = cl.status,
                                     !.loaded = donations[cl.donation].exists,
                                     !.dotp = IF payload THEN donations[cl.donation].otp
                                              ELSE NoOtp])
  /\ UNCHANGED <<now, donations, nextDon, claims, sweep, wrong, users, store>>

\* claim.status = 'collected'; await claim.save()
CollectSave(s) ==
  /\ reqs[s].op = "collect" /\ reqs[s].pc = "collectSave"
  /\ claims' = SaveClaimStatus(reqs[s].cid, reqs[s].st, "collected")
  /\ IF reqs[s].loaded
     THEN Goto(s, [reqs[s] EXCEPT !.pc = "collectDonation"])
     ELSE \* claim.donation._id of null: TypeError, caught, 500
          Respond(s, "ServerError")
  /\ UNCHANGED <<now, donations, nextDon, sweep, wrong, hits, users, store>>

\* the two events of a collection
CollectEvents(s) ==
  << Event("donation_collected", donations[reqs[s].don].donor, {"claim"},
           {claims[reqs[s].cid].otp}),
     Event("donation_status_updated", All, {"donation"}, {reqs[s].dotp}) >>

\* Donation.findByIdAndUpdate(claim.donation._id, {status: 'collected', ...});
\* with a rating the donor's document is loaded next
CollectDonation(s) ==
  /\ reqs[s].op = "collect" /\ reqs[s].pc = "collectDonation"
  /\ donations' = SetDonation(reqs[s].don, [status |-> "collected"])
  /\ IF reqs[s].rating = NoRating
     THEN RespondWith(s, "OK", CollectEvents(s))
     ELSE Goto(s, [reqs[s] EXCEPT !.pc = "collectFindDonor"])
  /\ UNCHANGED <<now, nextDon, claims, sweep, wrong, hits, users, store>>

\* const donor = await User.findById(claim.donation.donor)
CollectFindDonor(s) ==
  /\ reqs[s].op = "collect" /\ reqs[s].pc = "collectFindDonor"
  /\ Goto(s, [reqs[s] EXCEPT !.pc = "collectSaveDonor",
                 !.score = users[donations[reqs[s].don].donor].donationIntegrityScore])
  /\ UNCHANGED <<now, donations, nextDon, claims, sweep, wrong, hits, users, store>>

\* donor.donationIntegrityScore = Math.round(newScore * 10) / 10;
\* await donor.save(): the path is written when its value changed
CollectSaveDonor(s) ==
  /\ reqs[s].op = "collect" /\ reqs[s].pc = "collectSaveDonor"
  /\ LET new == NewScore(reqs[s].score, reqs[s].rating)
         u == donations[reqs[s].don].donor
     IN  users' = [users EXCEPT
           ![u].donationIntegrityScore = IF new = reqs[s].score THEN @ ELSE new,
           ![u].rated.by = Append(@, reqs[s].rating)]
  /\ RespondWith(s, "OK", CollectEvents(s))
  /\ UNCHANGED <<now, donations, nextDon, claims, sweep, wrong, hits, store>>

\* ------------------------------------------------- DELETE /api/claims/:id
\* Claim.findById(...).populate('donation') and the checks on the loaded claim
CancelFind(s, u, c, payload) ==
  /\ reqs[s] = Idle
  /\ LET r == [Idle EXCEPT !.op = "cancel", !.caller = u, !.cid = c] IN
     IF c \notin ClaimIds
     THEN /\ resp' = Answer("cancel", u, 0, c, NoOtp, "NotFound")
          /\ UNCHANGED reqs
     ELSE LET cl == claims[c]
              a == Answer("cancel", u, cl.donation, c, NoOtp, "none")
          IN  IF cl.claimant # u
              THEN /\ resp' = [a EXCEPT !.kind = "Forbidden"]
                   /\ UNCHANGED reqs
              ELSE IF cl.status = "collected"
              THEN /\ resp' = [a EXCEPT !.kind = "Conflict"]
                   /\ UNCHANGED reqs
              ELSE Goto(s, [r EXCEPT !.pc = "cancelSave", !.don = cl.donation,
                                     !.st = cl.status,
                                     !.loaded = donations[cl.donation].exists,
                                     !.dotp = IF payload THEN donations[cl.donation].otp
                                              ELSE NoOtp])
  /\ UNCHANGED <<now, donations, nextDon, claims, sweep, wrong, users, store>>

\* claim.status = 'cancelled'; await claim.save()
CancelSave(s) ==
  /\ reqs[s].op = "cancel" /\ reqs[s].pc = "cancelSave"
  /\ claims' = SaveClaimStatus(reqs[s].cid, reqs[s].st, "cancelled")
  /\ IF reqs[s].loaded
     THEN Goto(s, [reqs[s] EXCEPT !.pc = "cancelDonation"])
     ELSE \* claim.donation._id of null: TypeError, caught, 500
          Respond(s, "ServerError")
  /\ UNCHANGED <<now, donations, nextDon, sweep, wrong, hits, users, store>>

\* Donation.findByIdAndUpdate(claim.donation._id, {status: 'available', ...})
CancelDonation(s) ==
  /\ reqs[s].op = "cancel" /\ reqs[s].pc = "cancelDonation"
  /\ donations' = SetDonation(reqs[s].don, ResetPatch)
  /\ RespondWith(s, "OK",
       << Event("claim_cancelled", donations[reqs[s].don].donor, {"donation"},
                {reqs[s].dotp}),
          Event("donation_status_updated", All, {"donation"}, {reqs[s].dotp}) >>)
  /\ UNCHANGED <<now, nextDon, claims, sweep, wrong, hits, users, store>>

\* ---------------------------------------------- PATCH /api/donations/:id
\* Donation.findById and the donor check; updates = the allowed body fields
PatchFind(s, u, d, status) ==
  /\ reqs[s] = Idle
  /\ LET r == [Idle EXCEPT !.op = "patch", !.caller = u, !.don = d, !.st = status]
         don == donations[d]
         a == Answer("patch", u, d, 0, NoOtp, "none")
     IN  IF ~don.exists
         THEN /\ resp' = [a EXCEPT !.kind = "NotFound"]
              /\ UNCHANGED reqs
         ELSE IF don.donor # u
         THEN /\ resp' = [a EXCEPT !.kind = "Forbidden"]
              /\ UNCHANGED reqs
         ELSE Goto(s, [r EXCEPT !.pc = "patchWrite"])
  /\ UNCHANGED <<now, donations, nextDon, claims, sweep, wrong, users, store>>

\* Donation.findByIdAndUpdate(req.params.id, updates, {new: true})
PatchWrite(s) ==
  /\ reqs[s].op = "patch" /\ reqs[s].pc = "patchWrite"
  /\ donations' = IF reqs[s].st = "none" THEN donations
                  ELSE SetDonation(reqs[s].don, [status |-> reqs[s].st])
  /\ IF donations[reqs[s].don].exists
     THEN RespondWith(s, "OK",
            << Event("donation_status_updated", All, {"donation"},
                     {donations[reqs[s].don].otp}) >>
            \o IF reqs[s].st = "collected" /\ donations[reqs[s].don].claimedBy # NoUser
               THEN << Event("donation_collected", donations[reqs[s].don].claimedBy,
                             {"donation"}, {donations[reqs[s].don].otp}) >>
               ELSE << >>)
     ELSE \* updatedDonation is null: TypeError, caught, 500
          Respond(s, "ServerError")
  /\ UNCHANGED <<now, nextDon, claims, sweep, wrong, hits, users, store>>

\* --------------------------------------------- DELETE /api/donations/:id
\* Donation.findById, the donor check and the 'claimed' guard
DeleteFind(s, u, d) ==
  /\ reqs[s] = Idle
  /\ LET r == [Idle EXCEPT !.op = "delete", !.caller = u, !.don = d]
         don == donations[d]
         a == Answer("delete", u, d, 0, NoOtp, "none")
     IN  IF ~don.exists
         THEN /\ resp' = [a EXCEPT !.kind = "NotFound"]
              /\ UNCHANGED reqs
         ELSE IF don.donor # u
         THEN /\ resp' = [a EXCEPT !.kind = "Forbidden"]
              /\ UNCHANGED reqs
         ELSE IF don.status = "claimed"
         THEN /\ resp' = [a EXCEPT !.kind = "Conflict"]
              /\ UNCHANGED reqs
         ELSE Goto(s, [r EXCEPT !.pc = "deleteWrite"])
  /\ UNCHANGED <<now, donations, nextDon, claims, sweep, wrong, users, store>>

\* Donation.findByIdAndDelete(req.params.id)
DeleteWrite(s) ==
  /\ reqs[s].op = "delete" /\ reqs[s].pc = "deleteWrite"
  /\ donations' = [donations EXCEPT ![reqs[s].don] = NoDonation]
  /\ RespondWith(s, "OK", <<Event("donation_deleted", All, {"donationId"}, {})>>)
  /\ UNCHANGED <<now, nextDon, claims, sweep, wrong, hits, users, store>>

\* ------------------------------------------------- cleanupExpiredItems
\* Donation.updateMany({status: 'available', expiryDate: {$lt: now}}, ...)
SweepDonations(keep) ==
  /\ sweep.pc = "idle"
  /\ donations' = [d \in DonationIds |->
        IF donations[d].exists /\ donations[d].status = "available"
           /\ donations[d].expiryDate < now
        THEN [donations[d] EXCEPT !.status = "expired"]
        ELSE donations[d]]
  /\ sweep' = [sweep EXCEPT
        !.pc = "find",
        !.modified = Cardinality({d \in DonationIds :
                        /\ donations[d].exists /\ donations[d].status = "available"
                        /\ donations[d].expiryDate < now}),
        !.before = IF keep THEN [donations |-> donations, claims |-> claims]
                   ELSE <<>>]
  /\ resp' = NoResp
  /\ UNCHANGED <<now, nextDon, claims, reqs, wrong, hits, users, store>>

\* a filter that also takes the claims whose deadline is this instant
CleanupFilterAt(cl, t) == cl.status = "pending" /\ cl.expiresAt <= t

\* {status: 'pending', expiresAt: {$lt: new Date()}}
CleanupFilter(cl, t) == cl.status = "pending" /\ cl.expiresAt < t

\* the claims find({status: 'pending', expiresAt: {$lt: now}}) returns, in _id order
RECURSIVE ExpiredFrom(_)
ExpiredFrom(c) ==
  IF c > Len(claims) THEN <<>>
  ELSE IF CleanupFilter(claims[c], now)
       THEN <<c>> \o ExpiredFrom(c + 1)
       ELSE ExpiredFrom(c + 1)

\* Claim.cleanupExpired: the find; with nothing found the job logs and ends
SweepFind ==
  /\ sweep.pc = "find"
  /\ IF ExpiredFrom(1) = <<>>
     THEN /\ sweep' = SweepIdle
          /\ resp' = Report(sweep.modified, 0)
     ELSE /\ sweep' = [sweep EXCEPT !.pc = "save", !.queue = ExpiredFrom(1),
                                    !.found = Len(ExpiredFrom(1))]
          /\ resp' = NoResp
  /\ UNCHANGED <<now, donations, nextDon, claims, reqs, wrong, hits, users, store>>

\* claim.status = 'expired'; await claim.save()  (the claim was loaded pending)
SweepSave ==
  /\ sweep.pc = "save"
  /\ claims' = SaveClaimStatus(Head(sweep.queue), "pending", "expired")
  /\ sweep' = [sweep EXCEPT !.pc = "donation",
                            !.again = (claims[Head(sweep.queue)].status = "expired")]
  /\ resp' = NoResp
  /\ UNCHANGED <<now, donations, nextDon, reqs, wrong, hits, users, store>>

\* Donation.findByIdAndUpdate(claim.donation, {status: 'available', ...}); after
\* the last claim: return expiredClaims.length, and the job logs and ends
SweepDonation ==
  /\ sweep.pc = "donation"
  /\ donations' = SetDonation(claims[Head(sweep.queue)].donation, ResetPatch)
  /\ IF Tail(sweep.queue) = <<>>
     THEN /\ sweep' = SweepIdle
          /\ resp' = Report(sweep.modified, sweep.found)
     ELSE /\ sweep' = [sweep EXCEPT !.pc = "save", !.queue = Tail(sweep.queue),
                                    !.again = FALSE]
          /\ resp' = NoResp
  /\ UNCHANGED <<now, nextDon, claims, reqs, wrong, hits, users, store>>

\* ------------------------------------------------------------ scheduling
\* the handlers and the cleanup job suspended at an await
Busy ==
  Cardinality({t \in Slots : reqs[t] # Idle}) + (IF sweep.pc = "idle" THEN 0 ELSE 1)

\* at most MaxInFlight of them at a time
Room == Busy < MaxInFlight

\* nothing is suspended: the next handler runs with no concurrent operation
Quiet == Busy = 0

\* a request of one of the callers who to the claim routes, naming a claim _id
\* of ids, arrives and runs to its first await (or answer); payload: the
\* loaded donation's otp is kept for the events' payloads
ArriveClaim(s, sched, who, ids, codes, count, payload) ==
  /\ sched
  /\ \/ \E u \in who, d \in DonationIds :
          Limiter(u, count, Answer("createClaim", u, d, 0, NoOtp, "none"),
                  Authorize(u, ClaimRoles, Answer("createClaim", u, d, 0, NoOtp, "none"),
                            ClaimFind(s, u, d, payload)))
     \/ \E u \in who, c \in ids, code \in codes :
          Limiter(u, count, Answer("confirm", u, 0, c, code, "none"),
                  ConfirmFind(s, u, c, code, count))
     \/ \E u \in who, c \in ids :
          Limiter(u, count, Answer("collect", u, 0, c, NoOtp, "none"),
                  CollectFind(s, u, c, payload, NoRating))
     \/ \E u \in who, c \in ids :
          Limiter(u, count, Answer("cancel", u, 0, c, NoOtp, "none"),
                  CancelFind(s, u, c, payload))

\* a request to the donation routes arrives
ArriveDonation(s, sched, statuses) ==
  /\ sched
  /\ \/ \E u \in Users, d \in DonationIds, st \in statuses :
          Limiter(u, FALSE, Answer("patch", u, d, 0, NoOtp, "none"),
                  PatchFind(s, u, d, st))
     \/ \E u \in Donors, d \in DonationIds :
          Limiter(u, FALSE, Answer("delete", u, d, 0, NoOtp, "none"),
                  DeleteFind(s, u, d))

\* a suspended handler of the claim routes resumes at its await
ResumeClaim(s, otps) ==
  \/ ClaimExpireWrite(s)
  \/ ClaimFindExisting(s)
  \/ \E otp \in otps : ClaimSave(s, otp)
  \/ ClaimUpdateDonation(s)
  \/ ConfirmExpireSave(s)
  \/ ConfirmExpireDonation(s)
  \/ ConfirmSave(s)
  \/ CollectSave(s)
  \/ CollectDonation(s)
  \/ CollectFindDonor(s)
  \/ CollectSaveDonor(s)
  \/ CancelSave(s)
  \/ CancelDonation(s)

\* a suspended handler of the donation routes resumes at its await
ResumeDonation(s) ==
  \/ PatchWrite(s)
  \/ DeleteWrite(s)

\* cron.schedule('0 * * * *', cleanupExpiredItems), and its awaits
Sweep(sched, keep) ==
  \/ sched /\ SweepDonations(keep)
  \/ SweepFind
  \/ SweepSave
  \/ SweepDonation

\* the status values the PATCH requests of the model carry ("none": no status)
PatchStatuses == {"none", "available", "collected"}

\* the answer leaves the server: res.json() is the handler's last statement
Deliver ==
  /\ resp # NoResp
  /\ resp' = NoResp
  /\ UNCHANGED <<now, donations, nextDon, claims, reqs, sweep, wrong, hits, users, store>>

\* The lifecycle operations (createClaim, confirmPickup, markCollected,
\* cancelClaim, the sweep), one at a time: each handler runs from its first to
\* its last await with nothing in between.
Life(who, count) ==
  \/ Deliver
  \/ resp = NoResp /\ Quiet /\ Tick
  \/ \E u \in Donors, e \in 1..MaxTime :
       /\ resp = NoResp /\ Quiet
       /\ Limiter(u, count, Answer("createDonation", u, 0, 0, NoOtp, "none"),
                  CreateDonation(u, e, 1, "food", Num(1), NoExtra))
  \/ \E s \in {1} : resp = NoResp /\ ArriveClaim(s, Quiet, who, RequestClaimIds, RequestCodes, count, TRUE)
  \/ \E s \in {1} : resp = NoResp /\ ResumeClaim(s, Codes)
  \/ resp = NoResp /\ Sweep(Quiet, TRUE)

NextLife == Life(Users, FALSE)

\* The same behind the rate limiter, for the donor and one claimant, with the
\* wrong codes counted (at most MaxWrong per claim).
NextRetry == Life(Donors \cup {"ngoA"}, TRUE)

\* All operations, the donation routes included, one at a time.
Next ==
  \/ NextLife
  \/ \E s \in {1} : resp = NoResp /\ ArriveDonation(s, Quiet, PatchStatuses)
  \/ \E s \in {1} : resp = NoResp /\ ResumeDonation(s)

\* The lifecycle operations interleaved at their awaits, at most MaxInFlight
\* handlers (the cleanup job counted) suspended at a time.
NextRace ==
  \/ Deliver
  \/ resp = NoResp /\ Tick
  \/ \E u \in Donors, e \in {1} :
       /\ resp = NoResp
       /\ Limiter(u, FALSE, Answer("createDonation", u, 0, 0, NoOtp, "none"),
                  CreateDonation(u, e, 1, "food", Num(1), NoExtra))
  \/ \E s \in Slots : resp = NoResp /\ ArriveClaim(s, Room, Users, RaceClaimIds, RaceCodes, FALSE, FALSE)
  \/ \E s \in Slots : resp = NoResp /\ ResumeClaim(s, RaceCodes)
  \/ resp = NoResp /\ Sweep(Room, FALSE)

\* the quantities the POST requests of the value model carry: 0, small ones,
\* 2^20, and those around 2^53 / 25 up to the greatest safe integer 2^53 - 1
Quantities ==
  {Num(0), Num(1), Num(2), Num(3), Num(1000), <<0, 1, 0>>,
   <<327, 713031, 713031>>, <<327, 713031, 713032>>, <<327, 713031, 713033>>,
   <<327, 713031, 713034>>, <<8191, 1048575, 1048575>>}

\* what the body of a POST request of the value model carries beyond the
\* validated fields: nothing, a status, or the fields of a hold
Extras ==
  {NoExtra, [status |-> "claimed"], [status |-> "collected"],
   [claimedBy |-> "ngoA", claimedAt |-> 0, otp |-> 1000]}

\* POST /api/donations alone, for every category and the quantities and
\* bodies above
NextValue ==
  \/ Deliver
  \/ resp = NoResp /\ Tick
  \/ \E u \in Donors, e \in 1..MaxTime, category \in Categories,
        quantity \in Quantities, extra \in Extras :
       /\ resp = NoResp
       /\ Limiter(u, FALSE, Answer("createDonation", u, 0, 0, NoOtp, "none"),
                  CreateDonation(u, e, 2, category, quantity, extra))

\* the scores a donor can have: from the default, ratings of 1 lead down to
\* 1.5 and no further, and every tenth between is met on the way
Scores == 15..DefaultScore

\* the feedback.rating values a collect request may carry: none, those the
\* validator accepts, and one it rejects
Ratings == {NoRating} \cup (1..6)

\* those of the interleaved collect requests
RaceRatings == {NoRating, 1, 4}

\* those the interleaved collect requests start from: the least, the default
\* and one between
RaceScores == {15, 33, DefaultScore}

\* the donor has been rated before, and has one of scores
InitScoreFrom(scores) ==
  /\ now = 0
  /\ donations = [d \in DonationIds |-> NoDonation]
  /\ nextDon = 1
  /\ claims = <<>>
  /\ reqs = [s \in Slots |-> Idle]
  /\ sweep = SweepIdle
  /\ resp = NoResp
  /\ wrong = [c \in RequestClaimIds |-> 0]
  /\ hits = [u \in Users |-> 0]
  /\ users \in [Donors -> {NewUserOf(k) : k \in scores}]
  /\ store = [u \in Clients |-> NewStore]

InitScore == InitScoreFrom(Scores)
InitRaceScore == InitScoreFrom(RaceScores)

\* Two donations of one donor, claimed by one claimant and confirmed, one
\* request at a time; the claimant's collect requests, carrying one of
\* ratings, as sched lets them in.
ScoreModel(sched, ratings) ==
  \/ Deliver
  \/ \E u \in Donors, e \in {1} :
       /\ resp = NoResp /\ Quiet
       /\ Limiter(u, FALSE, Answer("createDonation", u, 0, 0, NoOtp, "none"),
                  CreateDonation(u, e, 1, "food", Num(1), NoExtra))
  \/ \E s \in {1} : resp = NoResp /\ ArriveClaim(s, Quiet, Donors \cup {"ngoA"}, RaceClaimIds, RaceCodes, FALSE, FALSE)
  \/ \E s \in Slots, c \in RaceClaimIds, rating \in ratings :
       /\ resp = NoResp /\ sched
       /\ Limiter("ngoA", FALSE, Answer("collect", "ngoA", 0, c, NoOtp, "none"),
                  CollectFind(s, "ngoA", c, FALSE, rating))
  \/ \E s \in Slots : resp = NoResp /\ ResumeClaim(s, RaceCodes)

\* the collect requests one at a time, with every rating
NextRated == ScoreModel(Quiet, Ratings)

\* the collect requests interleaved at their awaits
NextScore == ScoreModel(Room, RaceRatings)

\* ------------------------------------------------------- AppProvider
\* the times a store loads its lists (whenever user changes)
MaxLoads == 1

\* authorize('donor') of POST /api/donations
DonationRoles == {"donor"}

\* what a step of a store leaves alone
server == <<now, donations, nextDon, claims, reqs, sweep, resp, wrong, hits, users>>

\* [x, ...prev]
Prepend(x, prev) == <<x>> \o prev

\* prev.map(i => i.id === id ? updated : i)
Replace(prev, id, updated) ==
  [i \in DOMAIN prev |-> IF prev[i].id = id THEN updated ELSE prev[i]]

\* items.find(i => i.id === itemId): the first one, or no index
Find(list, id) ==
  IF \E i \in DOMAIN list : list[i].id = id
  THEN CHOOSE i \in DOMAIN list :
         list[i].id = id /\ \A j \in 1..(i - 1) : list[j].id # id
  ELSE 0

\* .sort({createdAt: -1}) of the documents of ids: the latest first
RECURSIVE Latest(_)
Latest(ids) ==
  IF ids = {} THEN << >>
  ELSE LET m == CHOOSE x \in ids : \A y \in ids : y <= x
       IN  <<m>> \o Latest(ids \ {m})

\* addItem (of a donor) up to its await: the body it posts has no
\* location.city
AddItem(u) ==
  /\ store[u].call = NoCall
  /\ Role(u) \in DonationRoles
  /\ store' = [store EXCEPT ![u].call = [NoCall EXCEPT !.op = "addItem"]]
  /\ UNCHANGED server

\* POST /api/donations of a body without location.city: the validators pass,
\* expiryDate <= now is answered 400, and donation.save() rejects, the schema
\* requiring location.city: the catch answers 500
CreateDonationNoCity(u, expiry) ==
  /\ resp' = Answer("createDonation", u, 0, 0, NoOtp,
                     IF expiry <= now THEN "ValidationError" ELSE "ServerError")
  /\ UNCHANGED <<now, donations, nextDon, claims, reqs, sweep, wrong, users, store>>

\* the request of addItem reaches the server
PostItem(u, expiry) ==
  /\ store[u].call.op = "addItem"
  /\ Limiter(u, FALSE, Answer("createDonation", u, 0, 0, NoOtp, "none"),
             Authorize(u, DonationRoles, Answer("createDonation", u, 0, 0, NoOtp, "none"),
                       CreateDonationNoCity(u, expiry)))

\* claimItem up to its await: the item is looked up in items, and must be
\* available and of another donor
ClaimItem(u, itemId) ==
  /\ store[u].call = NoCall
  /\ Find(store[u].items, itemId) # 0
  /\ LET item == store[u].items[Find(store[u].items, itemId)]
     IN  /\ item.status = "available"
         /\ item.donor # u
         /\ store' = [store EXCEPT ![u].call =
                        [op |-> "claimItem", itemId |-> itemId, item |-> item]]
  /\ UNCHANGED server

\* the request of claimItem reaches the server
PostClaim(s, u) ==
  /\ store[u].call.op = "claimItem"
  /\ \A t \in Slots : reqs[t].caller # u
  /\ Limiter(u, FALSE, Answer("createClaim", u, store[u].call.itemId, 0, NoOtp, "none"),
             Authorize(u, ClaimRoles,
                       Answer("createClaim", u, store[u].call.itemId, 0, NoOtp, "none"),
                       ClaimFind(s, u, store[u].call.itemId, FALSE)))

\* the handler of POST /api/claims resumes at its await
ResumeCreate(s, otps) ==
  \/ ClaimExpireWrite(s)
  \/ ClaimFindExisting(s)
  \/ \E otp \in otps : ClaimSave(s, otp)
  \/ ClaimUpdateDonation(s)

\* claim.toObject() or the claim of res.json: claimant is populated, donation
\* is the ObjectId
ClaimOf(r) ==
  [id |-> r.cid, status |-> claims[r.cid].status, donation |-> Ref(r.don)]

\* the payload of event e of answer r: new_donation carries the saved
\* document; donation_claimed the document createClaim loaded (available);
\* claim_created the claim; donation_status_updated the loaded document with
\* status: 'claimed'
Payload(e, r) ==
  CASE e.name = "new_donation" ->
         [name |-> e.name, donation |-> Doc(r.don, donations[r.don].status),
          claim |-> NoPayload]
    [] e.name = "donation_claimed" ->
         [name |-> e.name, donation |-> Doc(r.don, "available"), claim |-> ClaimOf(r)]
    [] e.name = "claim_created" ->
         [name |-> e.name, donation |-> NoPayload, claim |-> ClaimOf(r)]
    [] e.name = "donation_status_updated" ->
         [name |-> e.name, donation |-> Doc(r.don, "claimed"), claim |-> NoPayload]
    [] OTHER ->
         [name |-> e.name, donation |-> NoPayload, claim |-> NoPayload]

\* the events of answer r that reach the socket of u: those of io.emit and
\* those of the room user_<u>
Sent(u, r) ==
  LET mine == SelectSeq(r.events, LAMBDA e : e.to \in {All, u})
  IN  [i \in 1..Len(mine) |-> Payload(mine[i], r)]

\* answer r is the one the call of u awaits
Awaited(u, r) ==
  /\ r.caller = u
  /\ \/ store[u].call.op = "addItem" /\ r.op = "createDonation"
     \/ store[u].call.op = "claimItem" /\ r.op = "createClaim"

\* the answer as the call receives it: a 201 carries the donation (populated)
\* or the claim
HttpOf(u, r) ==
  [op |-> store[u].call.op, kind |-> r.kind, itemId |-> store[u].call.itemId,
   item |-> store[u].call.item,
   donation |-> IF r.op = "createDonation" /\ r.kind = "Created"
                THEN Doc(r.don, donations[r.don].status) ELSE NoPayload,
   claim |-> IF r.op = "createClaim" /\ r.kind = "Created"
             THEN ClaimOf(r) ELSE NoPayload,
   list |-> << >>]

\* the events and the answer leave the server: each event is queued on the
\* sockets it is addressed to, the answer travels to the call that awaits it
Transmit ==
  /\ resp # NoResp
  /\ store' = [u \in Clients |->
       [store[u] EXCEPT
          !.socket = @ \o Sent(u, resp),
          !.http = IF Awaited(u, resp) THEN @ \cup {HttpOf(u, resp)} ELSE @,
          !.call = IF Awaited(u, resp) THEN NoCall ELSE @]]
  /\ resp' = NoResp
  /\ UNCHANGED <<now, donations, nextDon, claims, reqs, sweep, wrong, hits, users>>

\* the events whose handler maps over items
Updates ==
  {"donation_claimed", "donation_status_updated", "donation_collected",
   "claim_cancelled"}

\* SocketService.emit(event, data) of the next event of the socket: the
\* handler registered for it runs; what it throws is caught and logged
SocketEvent(u) ==
  /\ store[u].socket # << >>
  /\ LET data == Head(store[u].socket)
         item == transformBackendDonation(data.donation)
         newClaim == transformBackendClaim(data.claim)
     IN  store' = [store EXCEPT
           ![u].socket = Tail(@),
           ![u].items =
              IF data.name = "new_donation" /\ item # Thrown
              THEN Prepend(item, @)
              ELSE IF data.name \in Updates /\ item # Thrown
              THEN Replace(@, item.id, item)
              ELSE @,
           ![u].claims =
              IF data.name = "claim_created" /\ newClaim # Thrown
              THEN Prepend(newClaim, @)
              ELSE @]
  /\ UNCHANGED server

\* an answer to a list request
Listed(op, list) ==
  [op |-> op, kind |-> "Ok", itemId |-> 0, item |-> NoPayload,
   donation |-> NoPayload, claim |-> NoPayload, list |-> list]

\* GET /api/donations?status=available&limit=50 of loadDonations: the
\* available donations of the other donors, the latest first, as the JSON of
\* the documents (setItems stores them as they come)
GetDonations(u) ==
  LET ids == Latest({d \in DonationIds :
                       /\ donations[d].exists
                       /\ donations[d].status = "available"
                       /\ donations[d].donor # u})
  IN  [i \in 1..Len(ids) |->
         [id |-> ids[i], status |-> donations[ids[i]].status,
          donor |-> donations[ids[i]].donor]]

\* GET /api/claims/user/my-claims of loadClaims: the caller's claims, the
\* latest first, each with its donation populated
GetMyClaims(u) ==
  LET ids == Latest({c \in ClaimIds : claims[c].claimant = u})
  IN  [i \in 1..Len(ids) |->
         [id |-> ids[i], status |-> claims[ids[i]].status,
          donation |-> Doc(claims[ids[i]].donation,
                            donations[claims[ids[i]].donation].status)]]

\* useEffect(..., [user]): loadDonations() and loadClaims(); the server
\* answers both requests
Load(u) ==
  /\ store[u].loads < MaxLoads
  /\ store' = [store EXCEPT
       ![u].loads = @ + 1,
       ![u].http = @ \cup {Listed("loadDonations", GetDonations(u)),
                            Listed("loadClaims", GetMyClaims(u))}]
  /\ UNCHANGED server

\* an answer arrives and the call that awaited it goes on.  addItem prepends
\* the item of a 201; claimItem maps the item it found, claimed, over items
\* and then prepends the claim of transformBackendClaim (what that throws is
\* caught); an error answer is thrown by the request and caught; loadDonations
\* and loadClaims set the list they got
HttpResponse(u) ==
  /\ \E data \in store[u].http :
       LET newItem == transformBackendDonation(data.donation)
           newClaim == transformBackendClaim(data.claim)
           updatedItem == [status |-> "claimed"] @@ data.item
       IN  store' = [store EXCEPT
             ![u].http = @ \ {data},
             ![u].items =
                IF data.op = "loadDonations" THEN data.list
                ELSE IF data.op = "addItem" /\ data.kind = "Created" /\ newItem # Thrown
                THEN Prepend(newItem, @)
                ELSE IF data.op = "claimItem" /\ data.kind = "Created"
                THEN Replace(@, data.itemId, updatedItem)
                ELSE @,
             ![u].claims =
                IF data.op = "loadClaims" THEN data.list
                ELSE IF data.op = "claimItem" /\ data.kind = "Created" /\ newClaim # Thrown
                THEN Prepend(newClaim, @)
                ELSE @]
  /\ UNCHANGED server

\* The stores of a donor and a claimant, with the requests they make and the
\* donations the donor creates with another client of the API, one handler at
\* a time; the events and the answers reach a store in any order.
NextClient ==
  \/ Transmit
  \/ resp = NoResp /\ Quiet /\ Tick
  \/ \E u \in Donors, e \in {1} :
       /\ resp = NoResp /\ Quiet /\ store[u].call = NoCall
       /\ Limiter(u, FALSE, Answer("createDonation", u, 0, 0, NoOtp, "none"),
                  CreateDonation(u, e, 1, "food", Num(1), NoExtra))
  \/ \E u \in Clients : resp = NoResp /\ AddItem(u)
  \/ \E u \in Clients, e \in {1} : resp = NoResp /\ Quiet /\ PostItem(u, e)
  \/ \E u \in Clients, d \in DonationIds : resp = NoResp /\ ClaimItem(u, d)
  \/ \E s \in {1}, u \in Clients : resp = NoResp /\ Quiet /\ PostClaim(s, u)
  \/ \E s \in {1} : resp = NoResp /\ ResumeCreate(s, RaceCodes)
  \/ \E u \in Clients : resp = NoResp /\ Load(u)
  \/ \E u \in Clients : resp = NoResp /\ SocketEvent(u)
  \/ \E u \in Clients : resp = NoResp /\ HttpResponse(u)

Spec == Init /\ [][Next]_vars
SpecClient == Init /\ [][NextClient]_vars
SpecRated == InitScore /\ [][NextRated]_vars
SpecScore == InitRaceScore /\ [][NextScore]_vars
SpecValue == Init /\ [][NextValue]_vars
SpecLife == Init /\ [][NextLife]_vars
SpecRetry == Init /\ [][NextRetry]_vars
SpecRace == Init /\ [][NextRace]_vars

\* The scheduler's part of the lifecycle model: time passes, cron fires the
\* cleanup job every hour, and a handler or the job that was started runs on
\* to its end and its answer is sent.
LifeTick == resp = NoResp /\ Quiet /\ Tick
LifeSweep == resp = NoResp /\ Sweep(Quiet, TRUE)
LifeResume == \E s \in {1} : resp = NoResp /\ ResumeClaim(s, Codes)
SpecFair ==
  /\ Init /\ [][NextLife]_vars
  /\ SF_vars(LifeTick) /\ SF_vars(LifeSweep)
  /\ WF_vars(LifeResume) /\ WF_vars(Deliver)

\* ------------------------------------------------------------ properties
\* a claim holds its donation: pending or confirmed
Active(c) == claims[c].status \in {"pending", "confirmed"}

\* the donation is back in the pool
Released(don) ==
  don.status = "available" /\ don.claimedBy = NoUser /\ don.otp = NoOtp

\* C1: of the createClaim calls running concurrently on one available donation
\* exactly one succeeds and takes the donation from available to claimed; the
\* others create no claim: no two concurrent calls have both inserted a claim,
\* and a call answered 201 holds the only active claim of its donation.
C1_OneClaimWins ==
  /\ \A s, t \in Slots :
       (s # t /\ reqs[s].op = "createClaim" /\ reqs[t].op = "createClaim"
        /\ reqs[s].don = reqs[t].don /\ reqs[s].cid # 0) => reqs[t].cid = 0
  /\ (resp.op = "createClaim" /\ resp.kind = "Created") =>
       \A c \in ClaimIds :
         (claims[c].donation = resp.don /\ Active(c)) => c = resp.cid

\* C2: in every reachable state each donation has at most one claim that is
\* pending or confirmed.
C2_OneActiveClaim ==
  \A d \in DonationIds :
    Cardinality({c \in ClaimIds : claims[c].donation = d /\ Active(c)}) <= 1

\* C3: when cancelClaim, the lazy expire of confirmPickup or the sweeper's
\* expire has taken a claim out of pending/confirmed and is done with it, the
\* claim's donation is available with claimedBy = null and otp = null.
C3_LimboRoundTrip ==
  [][ /\ \A s \in Slots :
           ( /\ reqs[s].pc \in {"cancelSave", "cancelDonation", "expireDonation"}
             /\ reqs[s].st \in {"pending", "confirmed"}
             /\ reqs'[s] = Idle )
           => Released(donations'[reqs[s].don])
      /\ (sweep.pc = "donation" /\ sweep' # sweep)
           => Released(donations'[claims[Head(sweep.queue)].donation])
    ]_vars

\* C4: every lifecycle transition writes only if the status it read is still
\* the stored one; otherwise it answers Conflict and writes nothing.
C4_ConditionalWrites ==
  [][ /\ \A s \in Slots :
           ( /\ reqs[s].pc \in {"expireSave", "confirmSave", "collectSave", "cancelSave"}
             /\ reqs'[s] # reqs[s] )
           => \/ claims[reqs[s].cid].status = reqs[s].st
              \/ claims' = claims /\ donations' = donations /\ resp'.kind = "Conflict"
      /\ \A s \in Slots :
           (reqs[s].pc = "updateDonation" /\ reqs'[s] # reqs[s])
           => \/ donations[reqs[s].don].status = "available"
              \/ claims' = claims /\ donations' = donations /\ resp'.kind = "Conflict"
      /\ (sweep.pc = "save" /\ sweep' # sweep)
           => \/ claims[Head(sweep.queue)].status = "pending"
              \/ claims' = claims /\ donations' = donations
    ]_vars

\* C5: in every reachable state a donation's claimedBy and otp are both set
\* exactly when its status is claimed, and both are null when it is available.
C5_ClaimFieldsIffClaimed ==
  \A d \in DonationIds :
    donations[d].exists =>
      /\ (donations[d].claimedBy # NoUser /\ donations[d].otp # NoOtp)
           <=> donations[d].status = "claimed"
      /\ donations[d].status = "available"
           => donations[d].claimedBy = NoUser /\ donations[d].otp = NoOtp

\* C6: claim and donation change together: in every state another operation
\* can observe, a pending or confirmed claim has its donation claimed by its
\* claimant under its otp, and a collected claim has its donation collected.
C6_ClaimDonationPaired ==
  \A c \in ClaimIds :
    LET don == donations[claims[c].donation] IN
    /\ Active(c) => /\ don.status = "claimed"
                    /\ don.claimedBy = claims[c].claimant
                    /\ don.otp = claims[c].otp
    /\ claims[c].status = "collected" => don.status = "collected"

\* the edges of the claim state machine
ClaimEdges ==
  {<<"pending", "confirmed">>, <<"pending", "expired">>, <<"pending", "cancelled">>,
   <<"confirmed", "collected">>, <<"confirmed", "cancelled">>}

\* C7: a claim's status changes only along the edges of the state machine;
\* collected, expired and cancelled are final.
C7_ClaimEdgesOnly ==
  [][ \A c \in ClaimIds :
        claims'[c].status # claims[c].status
          => <<claims[c].status, claims'[c].status>> \in ClaimEdges ]_vars

\* C8: cancelClaim goes through only for the claim's claimant and only on a
\* pending or confirmed claim; on any other status it answers Conflict and
\* changes neither the claim nor its donation.
C8_CancelGuard ==
  [][ /\ \A s \in Slots :
           (reqs[s] = Idle /\ reqs'[s].op = "cancel")
           => /\ claims[reqs'[s].cid].claimant = reqs'[s].caller
              /\ Active(reqs'[s].cid)
      /\ (resp = NoResp /\ resp'.op = "cancel" /\ resp'.kind = "OK")
           => /\ claims[resp'.cid].claimant = resp'.caller
              /\ claims'[resp'.cid].status = "cancelled"
    ]_vars

\* the edges of the donation state machine under the lifecycle operations
DonationEdges ==
  {<<"available", "claimed">>, <<"claimed", "collected">>,
   <<"claimed", "available">>, <<"available", "expired">>}

\* C9: under the lifecycle operations a donation's status changes only along
\* available->claimed, claimed->collected, claimed->available and
\* available->expired; a collected donation keeps its status.
C9_DonationEdgesOnly ==
  [][ \A d \in DonationIds :
        (donations[d].exists /\ donations'[d].status # donations[d].status)
          => <<donations[d].status, donations'[d].status>> \in DonationEdges ]_vars

\* the claim is open to the donor u: it is pending and its deadline has not passed
ConfirmOpen(c, u) ==
  /\ c \in ClaimIds
  /\ donations[claims[c].donation].exists
  /\ donations[claims[c].donation].donor = u
  /\ claims[c].status = "pending"
  /\ now <= claims[c].expiresAt

\* this step is the arrival of confirmPickup(c, code) by u
ConfirmArrives(u, c, code) ==
  \/ /\ resp = NoResp /\ reqs' = reqs
     /\ resp'.op = "confirm" /\ resp'.caller = u /\ resp'.cid = c /\ resp'.code = code
  \/ \E s \in Slots :
       /\ reqs[s] = Idle /\ reqs'[s].op = "confirm"
       /\ reqs'[s].caller = u /\ reqs'[s].cid = c /\ reqs'[s].code = code

\* what C10 asks of a step; limit: only of requests within the rate limit
C10_Step(limit) ==
  /\ \A u \in Users, c \in RequestClaimIds, code \in RequestCodes :
       ( /\ ConfirmArrives(u, c, code) /\ ConfirmOpen(c, u) /\ IsLength4(code)
         /\ limit => hits[u] < RateMax ) =>
         IF code # claims[c].otp
         THEN /\ resp'.kind = "InvalidCode"
              /\ claims' = claims /\ donations' = donations /\ reqs' = reqs
         ELSE \E s \in Slots : reqs'[s].pc = "confirmSave" /\ reqs'[s].cid = c
  /\ \A s \in Slots :
       (reqs[s].pc = "confirmSave" /\ reqs'[s] = Idle) =>
         /\ resp'.kind = "OK"
         /\ claims'[reqs[s].cid].status = "confirmed"
         /\ donations' = donations

ConfirmLate(c, u) ==
  /\ c \in ClaimIds
  /\ donations[claims[c].donation].exists
  /\ donations[claims[c].donation].donor = u
  /\ claims[c].status = "pending"
  /\ now > claims[c].expiresAt

C12_ConfirmGuardAndEffect ==
  [][ /\ \A u \in Users, c \in RequestClaimIds, code \in RequestCodes :
           ( /\ ConfirmArrives(u, c, code) /\ IsLength4(code)
             /\ c \in ClaimIds /\ donations[claims[c].donation].exists ) =>
             LET cl == claims[c]
                 don == donations[cl.donation]
                 ok == /\ don.donor = u /\ cl.status = "pending"
                       /\ now <= cl.expiresAt /\ code = cl.otp
             IN  /\ ok <=> \E s \in Slots : reqs'[s].pc = "confirmSave" /\ reqs'[s].cid = c
                 /\ don.donor # u =>
                      /\ resp'.kind = "Forbidden"
                      /\ claims' = claims /\ donations' = donations
                 /\ (don.donor = u /\ cl.status # "pending") =>
                      /\ resp'.kind = "Conflict"
                      /\ claims' = claims /\ donations' = donations
      /\ \A s \in Slots :
           (reqs[s].pc = "confirmSave" /\ reqs'[s] # reqs[s]) =>
             LET c == reqs[s].cid
                 don == donations'[reqs[s].don]
             IN  /\ resp'.kind = "OK"
                 /\ claims'[c].status = "confirmed"
                 /\ claims'[c].confirmedAt = now
                 /\ donations' = donations
                 /\ don.status = "claimed"
                 /\ don.claimedBy = claims[c].claimant
                 /\ don.otp = claims[c].otp
    ]_vars

\* this step is the arrival of markCollected(c) by u
CollectArrives(u, c) ==
  \/ /\ resp = NoResp /\ reqs' = reqs
     /\ resp'.op = "collect" /\ resp'.caller = u /\ resp'.cid = c
  \/ \E s \in Slots :
       /\ reqs[s] = Idle /\ reqs'[s].op = "collect"
       /\ reqs'[s].caller = u /\ reqs'[s].cid = c

\* C13: markCollected goes through only for the claim's claimant on a confirmed
\* claim, and then sets the claim and its donation collected; any other caller
\* is answered Forbidden and a claim that is not confirmed Conflict, with no
\* change.  So a claim becomes collected only from confirmed, after a
\* confirmPickup, and a donation becomes collected only together with such a
\* claim of it.
C13_CollectedOnlyAfterConfirm ==
  [][ /\ \A u \in Users, c \in RequestClaimIds :
           (CollectArrives(u, c) /\ c \in ClaimIds) =>
             LET cl == claims[c] IN
             /\ (cl.claimant = u /\ cl.status = "confirmed")
                  <=> \E s \in Slots : reqs'[s].pc = "collectSave" /\ reqs'[s].cid = c
             /\ cl.claimant # u =>
                  /\ resp'.kind = "Forbidden"
                  /\ claims' = claims /\ donations' = donations
             /\ (cl.claimant = u /\ cl.status # "confirmed") =>
                  /\ resp'.kind = "Conflict"
                  /\ claims' = claims /\ donations' = donations
      /\ \A s \in Slots :
           (reqs[s].op = "collect" /\ reqs[s] # Idle /\ reqs'[s] = Idle) =>
             /\ resp'.kind = "OK"
             /\ claims'[reqs[s].cid].status = "collected"
             /\ donations'[reqs[s].don].status = "collected"
      /\ \A c \in ClaimIds :
           (claims'[c].status = "collected" /\ claims[c].status # "collected") =>
             claims[c].status = "confirmed" /\ claims[c].confirmedAt # NoTime
      /\ \A d \in DonationIds :
           (donations'[d].status = "collected" /\ donations[d].status # "collected") =>
             \E c \in ClaimIds : /\ claims[c].donation = d
                                 /\ claims[c].status = "collected"
                                 /\ claims[c].confirmedAt # NoTime
    ]_vars

\* C14: a code issued for one claim never confirms another: a confirmPickup
\* (c2, code) that goes through carried the code issued for c2, and one that
\* carries the code issued for a different claim c1 does not go through.
C14_OtpSinglePurpose ==
  [][ \A u \in Users, c2 \in RequestClaimIds, code \in RequestCodes :
        ( /\ ConfirmArrives(u, c2, code) /\ c2 \in ClaimIds
          /\ \E s \in Slots : reqs'[s].pc = "confirmSave" /\ reqs'[s].cid = c2 ) =>
          /\ code = claims[c2].otp
          /\ \A c1 \in ClaimIds \ {c2} : code # claims[c1].otp
    ]_vars

\* this step is the arrival of createClaim(d) by u
ClaimArrives(u, d) ==
  \/ /\ resp = NoResp /\ reqs' = reqs
     /\ resp'.op = "createClaim" /\ resp'.caller = u /\ resp'.don = d
  \/ \E s \in Slots :
       /\ reqs[s] = Idle /\ reqs'[s].op = "createClaim"
       /\ reqs'[s].caller = u /\ reqs'[s].don = d

Owed(c) ==
  \/ \E t \in Slots : /\ reqs[t].op = "confirm" /\ reqs[t].pc = "expireDonation"
                       /\ reqs[t].cid = c /\ ~reqs[t].again
  \/ sweep.pc = "donation" /\ Head(sweep.queue) = c /\ ~sweep.again

\* C16: the expire transition on a claim that is stored expired already changes
\* nothing: the sweeper's find does not return the claim and confirmPickup on
\* it is answered at once with no write; and an expire transition whose claim
\* has been expired by another one before it writes leaves the claim as it is,
\* and the claim's donation too once the transition that expired the claim has
\* finished (whoever holds the donation by then).
C16_ExpireIdempotent ==
  [][ /\ (sweep.pc = "find" /\ sweep' # sweep) =>
           \A i \in 1..Len(sweep'.queue) : claims[sweep'.queue[i]].status # "expired"
      /\ \A u \in Users, c \in RequestClaimIds, code \in RequestCodes :
           (ConfirmArrives(u, c, code) /\ c \in ClaimIds /\ claims[c].status = "expired") =>
             claims' = claims /\ donations' = donations /\ reqs' = reqs
      /\ (sweep.pc = "save" /\ sweep' # sweep
          /\ claims[Head(sweep.queue)].status = "expired") => claims' = claims
      /\ (sweep.pc = "donation" /\ sweep' # sweep /\ sweep.again) =>
           claims' = claims /\ (donations' = donations \/ Owed(Head(sweep.queue)))
      /\ \A s \in Slots :
           (reqs[s].pc = "expireSave" /\ reqs'[s] # reqs[s]
            /\ claims[reqs[s].cid].status = "expired") => claims' = claims
      /\ \A s \in Slots :
           (reqs[s].pc = "expireDonation" /\ reqs'[s] # reqs[s] /\ reqs[s].again) =>
             claims' = claims /\ (donations' = donations \/ Owed(reqs[s].cid))
    ]_vars

\* C17: the update-donation endpoint (PATCH /api/donations/:id) never changes a
\* donation's status or claimedBy, and a request that carries a status is
\* rejected.
C17_PatchKeepsStatus ==
  [][ \A s \in Slots :
        (reqs[s].op = "patch" /\ reqs[s].pc = "patchWrite" /\ reqs'[s] # reqs[s]) =>
          /\ donations'[reqs[s].don].status = donations[reqs[s].don].status
          /\ donations'[reqs[s].don].claimedBy = donations[reqs[s].don].claimedBy
          /\ (reqs[s].st # "none" => resp'.kind # "OK")
    ]_vars

\* C18: a donation is never hard-deleted while a claim references it: every
\* claim's donation reference resolves to a stored donation.
C18_ClaimDonationResolves ==
  \A c \in ClaimIds : donations[claims[c].donation].exists

\* C19: no donation stays claimed forever: with the cleanup job scheduled
\* fairly, a donation that becomes claimed (early enough for its claim's
\* deadline to pass within the time modelled) eventually is available or
\* collected, whatever requests follow or fail to follow.
C19_ClaimedEventuallyLeaves ==
  \A d \in DonationIds :
    (donations[d].status = "claimed" /\ now + ClaimWindow < MaxTime)
      ~> (donations[d].status \in {"available", "collected"})

\* the claims and the donations the cleanup job is to transition, of the
\* collections b it started from
DueClaims(b) ==
  {c \in 1..Len(b.claims) :
     b.claims[c].status = "pending" /\ b.claims[c].expiresAt < now}
DueDonations(b) ==
  {d \in DonationIds :
     /\ b.donations[d].exists /\ b.donations[d].status = "available"
     /\ b.donations[d].expiryDate < now}

\* C20: when the cleanup job has run to its end with nothing else running,
\* every claim that was pending past its expiresAt is expired and its donation
\* is available with claimedBy and otp null, every donation that was available
\* past its expiryDate is expired, every other claim and donation is as it
\* was, and the two counts the job reports are the numbers of donations and of
\* claims it transitioned.
C20_SweepPostcondition ==
  [][ (sweep.pc # "idle" /\ sweep'.pc = "idle") =>
        LET b == sweep.before IN
        /\ Len(claims') = Len(b.claims)
        /\ \A c \in DueClaims(b) :
             /\ claims'[c].status = "expired"
             /\ donations'[b.claims[c].donation].status = "available"
             /\ donations'[b.claims[c].donation].claimedBy = NoUser
             /\ donations'[b.claims[c].donation].otp = NoOtp
        /\ \A d \in DueDonations(b) : donations'[d].status = "expired"
        /\ \A c \in (1..Len(b.claims)) \ DueClaims(b) : claims'[c] = b.claims[c]
        /\ \A d \in DonationIds \ DueDonations(b) :
             (\A c \in DueClaims(b) : b.claims[c].donation # d) =>
               donations'[d] = b.donations[d]
        /\ resp'.expiredDonations = Cardinality(DueDonations(b))
        /\ resp'.expiredClaims = Cardinality(DueClaims(b))
    ]_vars

\* donation d has been released by a cancel of another claimant and is open to
\* claimant u: stored available and not past its expiryDate
Reclaimable(u, d) ==
  /\ u \in Claimants
  /\ donations[d].exists /\ donations[d].status = "available"
  /\ ~DonationIsExpired(donations[d], now)
  /\ \E c \in ClaimIds : /\ claims[c].donation = d /\ claims[c].status = "cancelled"
                          /\ claims[c].claimant # u

\* what C21 asks of a step; fresh: only of a claimant with no claim on d yet
C21_Step(fresh) ==
  /\ \A s \in Slots :
       ( /\ reqs[s].op = "cancel" /\ reqs[s].pc = "cancelDonation" /\ reqs'[s] = Idle
         /\ reqs[s].st \in {"pending", "confirmed"} ) =>
         /\ resp'.kind = "OK"
         /\ claims'[reqs[s].cid].status = "cancelled"
         /\ donations'[reqs[s].don].status = "available"
  /\ \A u \in Users, d \in DonationIds :
       (ClaimArrives(u, d) /\ Reclaimable(u, d) /\ (fresh => ~HasClaim(d, u))) =>
         \E s \in Slots : reqs'[s].pc = "findClaim"
  /\ \A s \in Slots :
       ( /\ reqs[s].op = "createClaim" /\ reqs[s].pc \in {"findClaim", "save"}
         /\ reqs'[s] # reqs[s]
         /\ Reclaimable(reqs[s].caller, reqs[s].don)
         /\ fresh => ~HasClaim(reqs[s].don, reqs[s].caller) ) =>
         reqs'[s].pc \in {"save", "updateDonation"}
  /\ \A s \in Slots :
       ( /\ reqs[s].op = "createClaim" /\ reqs[s].pc = "updateDonation"
         /\ reqs'[s] # reqs[s]
         /\ Reclaimable(reqs[s].caller, reqs[s].don) ) =>
         /\ resp'.kind = "Created"
         /\ donations'[reqs[s].don].status = "claimed"
         /\ donations'[reqs[s].don].claimedBy = reqs[s].caller

\* C21: when the claimant has cancelled a pending or confirmed claim on
\* donation D, the claim is cancelled and D is available, and a createClaim(D)
\* by a different claimant that follows (D not past its expiryDate) succeeds.
C21_CancelThenReclaim == [][C21_Step(FALSE)]_vars

\* C21, amended: the same of a different claimant who has no claim on D yet.
C21_CancelThenReclaimFresh == [][C21_Step(TRUE)]_vars

\* a claimant has claimed a donation that another claimant's cancel released
C21_Witness ==
  /\ resp.op = "createClaim" /\ resp.kind = "Created"
  /\ donations[resp.don].status = "claimed"
  /\ donations[resp.don].claimedBy = resp.caller
  /\ \E c \in ClaimIds : /\ claims[c].donation = resp.don
                          /\ claims[c].status = "cancelled"
                          /\ claims[c].claimant # resp.caller

\* C22: a createClaim(D) by A that is answered 201 has found D available and
\* has created a claim that is pending, carries a 4-digit numeric otp, has A as
\* claimant and expiresAt = claimedAt + the claim window, and leaves D claimed
\* with claimedBy A, claimedAt set and the claim's otp.
C22_CreateClaimEffect ==
  [][ \A s \in Slots :
        ( /\ reqs[s].op = "createClaim" /\ reqs'[s] = Idle
          /\ resp'.kind = "Created" ) =>
          LET c == reqs[s].cid
              d == reqs[s].don
          IN  /\ donations[d].status = "available"
              /\ Len(claims') = Len(claims) /\ c = Len(claims)
              /\ claims'[c].donation = d
              /\ claims'[c].claimant = reqs[s].caller
              /\ claims'[c].status = "pending"
              /\ IsLength4(claims'[c].otp) /\ claims'[c].otp \in Nat
              /\ claims'[c].expiresAt = claims'[c].claimedAt + ClaimWindow
              /\ donations'[d].status = "claimed"
              /\ donations'[d].claimedBy = reqs[s].caller
              /\ donations'[d].claimedAt # NoTime
              /\ donations'[d].otp = claims'[c].otp
              /\ resp'.code = claims'[c].otp
    ]_vars

\* a createClaim was answered 201 and its claim and donation are stored
C22_Witness ==
  /\ resp.op = "createClaim" /\ resp.kind = "Created"
  /\ resp.cid \in ClaimIds
  /\ claims[resp.cid].status = "pending"
  /\ claims[resp.cid].claimant = resp.caller
  /\ donations[resp.don].status = "claimed"
  /\ donations[resp.don].otp = claims[resp.cid].otp

\* claimant u has a claim, of whatever status, on donation d
Duplicate(d, u) ==
  \E c \in 1..Len(claims) : claims[c].donation = d /\ claims[c].claimant = u

\* the donation's claim fields are as they were
HoldUnchanged(d) ==
  /\ donations'[d].claimedBy = donations[d].claimedBy
  /\ donations'[d].claimedAt = donations[d].claimedAt
  /\ donations'[d].otp = donations[d].otp

EventNames(r) == {r.events[i].name : i \in 1..Len(r.events)}

\* the channels an answer's events were addressed to
EventChannels(r) == {r.events[i].to : i \in 1..Len(r.events)}

\* this step ends a createClaim, confirmPickup, markCollected or cancelClaim
\* of slot s with success
Succeeds(s) ==
  /\ reqs[s].op \in {"createClaim", "confirm", "collect", "cancel"}
  /\ reqs'[s] = Idle
  /\ resp'.kind \in {"Created", "OK"}

\* C24: every successful transition publishes exactly one event: a successful
\* createClaim, confirmPickup, markCollected, cancelClaim and every expire
\* transition (of confirmPickup and of the cleanup job) is published under one
\* event name, never none and never more than one.
C24_OneEventPerTransition ==
  [][ /\ \A s \in Slots : Succeeds(s) => Cardinality(EventNames(resp')) = 1
      /\ \A s \in Slots :
           (reqs[s].op = "confirm" /\ reqs[s].pc = "expireDonation" /\ reqs'[s] = Idle) =>
             Cardinality(EventNames(resp')) = 1
      /\ (sweep.pc = "donation" /\ sweep' # sweep) =>
           Cardinality(EventNames(resp')) = 1
    ]_vars

\* the two parties of claim c: the donor of its donation and its claimant
Parties(c) == {donations[claims[c].donation].donor, claims[c].claimant}

\* C25: what a successful createClaim, confirmPickup, markCollected or
\* cancelClaim publishes is addressed to both parties: to the donor's user
\* channel and to the claimant's user channel.
C25_BothPartiesAddressed ==
  [][ \A s \in Slots :
        (Succeeds(s) /\ donations[reqs[s].don].exists) =>
          Parties(reqs[s].cid) \subseteq EventChannels(resp')
    ]_vars

\* the OTPs of the claims that are pending after this step, apart from those
\* of claimant u's own claims
SecretFrom(u) ==
  {claims'[c].otp : c \in {k \in 1..Len(claims') :
                           claims'[k].status = "pending" /\ claims'[k].claimant # u}}

\* C26: claim_created is addressed to the claimant's channel only, and no
\* event of any operation carries the code of a pending claim to the global
\* broadcast or to the channel of a user other than that claim's claimant.
C26_CodeOnlyToClaimant ==
  [][ \A i \in 1..Len(resp'.events) :
        LET e == resp'.events[i] IN
        /\ e.name = "claim_created" => e.to = resp'.caller /\ e.to \in Claimants
        /\ e.to = All =>
             \A c \in 1..Len(claims') :
               claims'[c].status = "pending" => claims'[c].otp \notin e.codes
        /\ e.to # All => e.codes \cap SecretFrom(e.to) = {}
    ]_vars

\* the kinds of answer that report an error
ErrorKinds ==
  {"NotFound", "Forbidden", "Conflict", "InvalidCode", "Expired", "ValidationError"}

\* C27: an operation that is answered with an error (NotFound, Forbidden,
\* Conflict, InvalidCode, Expired or ValidationError) publishes no event on any
\* channel.
C27_ErrorsPublishNothing ==
  resp.kind \in ErrorKinds => resp.events = << >>

\* a confirmPickup with a wrong code was answered InvalidCode, with no event
C27_Witness ==
  /\ resp.op = "confirm" /\ resp.kind = "InvalidCode"
  /\ resp.events = << >>
  /\ claims[resp.cid].status = "pending"

\* C28: an event's name fixes its payload, whichever operation publishes it:
\* every donation_collected and pickup_confirmed event carries the claim, every
\* claim_cancelled and donation_status_updated event carries the donation.
C28_PayloadByName ==
  \A i \in 1..Len(resp.events) :
    LET e == resp.events[i] IN
    /\ e.name \in {"donation_collected", "pickup_confirmed"} => "claim" \in e.fields
    /\ e.name \in {"claim_cancelled", "donation_status_updated"} => "donation" \in e.fields

\* the rates of the specification, per category
baseRate == [food |-> 50, medicine |-> 100, other |-> 25]

\* C29: every stored donation's estimatedValue is its quantity times the base
\* rate of its category (food 50, medicine 100, other 25), for every category
\* and every quantity of at least 1.
C29_EstimatedValue ==
  \A d \in DonationIds :
    donations[d].exists =>
      /\ donations[d].category \in Categories
      /\ IsInt1(donations[d].quantity)
      /\ donations[d].estimatedValue =
           Times(donations[d].quantity, baseRate[donations[d].category])

\* the same for the quantities whose product is below 2^53
C29_SafeValue ==
  \A d \in DonationIds :
    donations[d].exists /\ donations[d].quantity[1] < 81 =>
      donations[d].estimatedValue =
        Times(donations[d].quantity, baseRate[donations[d].category])

\* the absolute value
Abs(n) == IF n < 0 THEN -n ELSE n

\* new is (old * 10 + rating) / 11 rounded to one decimal, all in tenths: the
\* tenth nearest to (old + rating) * 10 / 11
Round10(old, rating, new) == 2 * Abs(11 * new - 10 * (old + rating)) <= 11

\* the collect request of slot s is answered with success
Collected(s) ==
  /\ reqs[s].op = "collect" /\ reqs'[s] = Idle
  /\ resp'.op = "collect" /\ resp'.kind = "OK"

\* C30: a successful markCollected with a rating r of 1..5 sets the donor's
\* integrity score to round10((score * 10 + r) / 11), and one without a rating
\* leaves the score as it is.
C30_Step ==
  \A s \in Slots :
    Collected(s) =>
      LET u == donations[reqs[s].don].donor
          r == reqs[s].rating
      IN  IF r = NoRating
          THEN users' = users
          ELSE /\ r \in 1..5
               /\ Round10(users[u].donationIntegrityScore, r,
                          users'[u].donationIntegrityScore)
               /\ \A v \in Donors \ {u} : users'[v] = users[v]

C30_ScoreUpdate == [][C30_Step]_vars

\* the claim write of an expiry of claim c: its status, nothing else, no event
ExpireClaimWrite(c) ==
  /\ claims' = [claims EXCEPT ![c].status = "expired"]
  /\ donations' = donations
  /\ resp'.events = << >>

\* the donation write of an expiry of claim c: the donation is released, no event
ExpireDonationWrite(c) ==
  /\ claims' = claims
  /\ donations' = [donations EXCEPT ![claims[c].donation] =
        IF @.exists
        THEN [@ EXCEPT !.status = "available", !.claimedBy = NoUser,
                       !.claimedAt = NoTime, !.otp = NoOtp]
        ELSE @]
  /\ resp'.events = << >>

\* C31: the sweeper's expire and the lazy expire of confirmPickup are one
\* transition: they take the same claims (pending, past the deadline), and
\* from the same claim and donation they write the same claim, the same
\* donation and publish the same events (none).
C31_Step ==
  /\ \A c \in ClaimIds :
       CleanupFilter(claims[c], now)
         <=> ClaimIsExpired(claims[c].status, claims[c].expiresAt, now)
  /\ \A s \in Slots :
       /\ reqs[s].pc = "expireSave" /\ reqs'[s] # reqs[s]
            => ExpireClaimWrite(reqs[s].cid)
       /\ reqs[s].pc = "expireDonation" /\ reqs'[s] # reqs[s]
            => ExpireDonationWrite(reqs[s].cid)
  /\ sweep.pc = "save" /\ sweep' # sweep => ExpireClaimWrite(Head(sweep.queue))
  /\ sweep.pc = "donation" /\ sweep' # sweep
       => ExpireDonationWrite(Head(sweep.queue))

C31_ExpireSameTransition == [][C31_Step]_vars

\* the cleanup job has just expired a claim and released its donation
C31_Witness ==
  /\ resp.op = "cleanup" /\ resp.expiredClaims = 1
  /\ \E c \in ClaimIds :
       /\ claims[c].status = "expired"
       /\ donations[claims[c].donation].status = "available"

\* claimant u had a claim on donation d that was cancelled or has expired
HadClaim(d, u) ==
  \E c \in ClaimIds :
    /\ claims[c].donation = d /\ claims[c].claimant = u
    /\ claims[c].status \in {"cancelled", "expired"}

\* C32: once a claimant has had a claim on donation D, a cancelled or expired
\* one included, every later createClaim(D) of that claimant fails, as a
\* duplicate when D is available again; a claim on D is only ever created
\* for a claimant who had none.
C32_Step ==
  /\ \A u \in Claimants, d \in DonationIds :
       (ClaimArrives(u, d) /\ Duplicate(d, u)) =>
         /\ claims' = claims
         /\ resp'.kind \in {"none", "NotFound", "Conflict"}
         /\ \A s \in Slots :
              reqs[s] = Idle => reqs'[s].pc \in {"idle", "expireWrite", "findClaim"}
  /\ \A s \in Slots :
       ( /\ reqs[s].op = "createClaim" /\ reqs[s].pc = "findClaim"
         /\ reqs'[s] # reqs[s]
         /\ Duplicate(reqs[s].don, reqs[s].caller) ) =>
         /\ resp'.kind = "Conflict" /\ reqs'[s] = Idle
         /\ claims' = claims /\ donations' = donations
  /\ Len(claims') > Len(claims) =>
       /\ Len(claims') = Len(claims) + 1
       /\ ~Duplicate(claims'[Len(claims')].donation, claims'[Len(claims')].claimant)
  /\ \A c \in ClaimIds :
       /\ claims'[c].donation = claims[c].donation
       /\ claims'[c].claimant = claims[c].claimant

C32_NoSecondClaim == [][C32_Step]_vars

\* a claimant whose claim was cancelled or has expired asked again for the
\* donation, which is available and not past its expiryDate, and was refused
C32_Witness ==
  /\ resp.op = "createClaim" /\ resp.kind = "Conflict"
  /\ HadClaim(resp.don, resp.caller)
  /\ donations[resp.don].exists /\ donations[resp.don].status = "available"
  /\ ~DonationIsExpired(donations[resp.don], now)

\* this step belongs to a markCollected or a cancelClaim of claim c
CollectOrCancel(c) ==
  \E s \in Slots :
    /\ reqs[s].op \in {"collect", "cancel"} /\ reqs[s].cid = c
    /\ reqs'[s] # reqs[s]

\* a confirmed claim is not moved to expired, whatever the time
C33_NeverExpired ==
  \A c \in ClaimIds :
    claims[c].status = "confirmed" => claims'[c].status # "expired"

\* only markCollected and cancelClaim change a confirmed claim
C33_OnlyCollectOrCancel ==
  \A c \in ClaimIds :
    (claims[c].status = "confirmed" /\ claims'[c] # claims[c]) =>
      /\ CollectOrCancel(c)
      /\ claims'[c].status \in {"collected", "cancelled"}

\* while the claim stays confirmed its donation stays claimed
C33_DonationStaysClaimed ==
  \A c \in ClaimIds :
    (claims[c].status = "confirmed" /\ claims'[c].status = "confirmed") =>
      LET d == claims[c].donation IN
      donations[d].status = "claimed" => donations'[d].status = "claimed"

\* C33: a confirmed claim is never moved to expired by the sweeper or a lazy
\* check, however far the time is past its expiresAt; only markCollected and
\* cancelClaim change it, and its donation stays claimed until then.
C33_ConfirmedIsKept ==
  [][C33_NeverExpired /\ C33_OnlyCollectOrCancel /\ C33_DonationStaysClaimed]_vars

\* C34: every donation the create-donation operation stores starts with status
\* available and claimedBy, claimedAt and otp null, whatever further fields the
\* request body carries.
C34_StartsAvailable ==
  [][ \A d \in DonationIds :
        (~donations[d].exists /\ donations'[d].exists) =>
          /\ resp'.op = "createDonation" /\ resp'.kind = "Created"
          /\ donations'[d].status = "available"
          /\ donations'[d].claimedBy = NoUser
          /\ donations'[d].claimedAt = NoTime
          /\ donations'[d].otp = NoOtp
    ]_vars

\* C35: when a pass of the cleanup job has completed with nothing else running,
\* no donation is available with its expiryDate in the past, those the pass
\* itself released by expiring their claim included.
C35_NoStaleAvailable ==
  resp.op = "cleanup" =>
    \A d \in DonationIds :
      ~( /\ donations[d].exists /\ donations[d].status = "available"
         /\ donations[d].expiryDate < now )

\* the sequence rs without its i-th element
Without(rs, i) == SubSeq(rs, 1, i - 1) \o SubSeq(rs, i + 1, Len(rs))

\* the scores that the ratings rs, each applied once by the formula of the
\* specification and in whatever order, make of the score k
RECURSIVE Outcomes(_, _)
Outcomes(k, rs) ==
  IF rs = << >> THEN {k}
  ELSE UNION { Outcomes(CHOOSE n \in 0..DefaultScore : Round10(k, rs[i], n),
                        Without(rs, i)) : i \in 1..Len(rs) }

\* no collect request is between its first await and its answer
NoCollectRunning == \A s \in Slots : reqs[s].op # "collect"

\* C36: after any sequence of markCollected operations with ratings 1..5,
\* overlapping ones for one donor included, every donor's score is within 0..5
\* and reflects each of the ratings exactly once.
C36_EachRatingOnce ==
  \A u \in Donors :
    /\ users[u].donationIntegrityScore \in 0..DefaultScore
    /\ NoCollectRunning =>
         users[u].donationIntegrityScore
           \in Outcomes(users[u].rated.from, users[u].rated.by)

\* the score stays within 0..5
C36_InRange ==
  \A u \in Donors : users[u].donationIntegrityScore \in 0..DefaultScore

\* C37 (items): in a store, no two entries of the items list have the same
\* donation id
C37_ItemsOnce ==
  \A u \in Clients :
    \A i, j \in DOMAIN store[u].items :
      store[u].items[i].id = store[u].items[j].id => i = j

\* C37 (claims): in a store, no two entries of the claims list have the same
\* claim id
C37_ClaimsOnce ==
  \A u \in Clients :
    \A i, j \in DOMAIN store[u].claims :
      store[u].claims[i].id = store[u].claims[j].id => i = j

\* C37: whatever the order in which the answers and the socket events reach a
\* store, its items list holds each donation id at most once and its claims
\* list holds each claim id at most once
C37_EachIdOnce ==
  C37_ItemsOnce /\ C37_ClaimsOnce

====
